---- MODULE Spec2Model ----
(***************************************************************************)
(* StableFlow settlement engine: the wallet service (ledger), the          *)
(* transaction service (intake and limit counters) and the transaction     *)
(* worker (settlement pipeline), as state machines.                        *)
(*                                                                         *)
(* Decimal columns (decimal(18,8), carried as strings) are modelled as     *)
(* integers counting thousandths of a token (1 token = 1000 units);        *)
(* parseFloat / toFixed(8) are exact on the sums, differences and 0.1%     *)
(* fees of the whole-token amounts used here.                              *)
(***************************************************************************)
EXTENDS Integers, Sequences, FiniteSets, TLC

(* ------------------------------ bounds -------------------------------- *)
MaxBalance == 3000
MaxHistory == 3
MaxTx == 2
MaxDay == 1
MaxAttempts == 4
MaxNow == 1
DaysPerMonth == 2

Users == {1, 2}
ApiCallers == {"a1", "a2"}
IntakeSlots == {"i1", "i2"}
Deliveries == {"d1", "d2"}
Amounts == {1000, 2000}
ApiAmounts == {0, 1000, 2000}
NoTxId == 0
NoAmount == -1
NoTime == -1

(* ------------------------- wallet service types ------------------------ *)
ChangeType ==
  {"DEPOSIT", "WITHDRAWAL", "TRANSFER_IN", "TRANSFER_OUT", "MINT", "BURN",
   "FREEZE", "UNFREEZE", "FEE", "ADJUSTMENT"}

WalletStatus == {"ACTIVE", "FROZEN", "SUSPENDED", "CLOSED"}

\* `duplicates` counts the further wallets rows of the same user and
\* currency; findOne returns the first row, whose columns the record holds.
NoWallet == [exists |-> FALSE, balance |-> 0, frozen_balance |-> 0, status |-> "NONE",
             last_transaction_at |-> NoTime, duplicates |-> 0]

NoDto == [user_id |-> 0, amount |-> 0, change_type |-> "undefined",
          transaction_id |-> NoTxId, extra |-> {}]

IdleCall == [pc |-> "idle", dto |-> NoDto, wallet |-> NoWallet, result |-> "none"]

VARIABLES
  wallets,      \* wallets table: user_id -> row (currency USDT)
  history,      \* balance_history table, in insertion order
  lock,         \* row lock on a wallet row: the caller holding it, or "none"
  api,          \* wallet-service requests in flight, one per caller
  txs,          \* transactions table, in insertion order (id = position)
  limits,       \* transaction_limits table: user_id -> row
  today,        \* the current date, as a day number
  intake,       \* transaction-service requests in flight, one per slot
  logs,         \* transaction_logs table of the worker: transaction id -> row
  dl,           \* processTransaction calls in flight, one per delivery slot
  sent,         \* last status the worker sent for each transaction id
  attempts,     \* failed settlement attempts of each transaction id (MaxAttempts: that many or more)
  now,          \* the worker's clock, in periods of 30 s
  acked         \* transaction ids whose message offset the consumer committed

ledgerVars == <<wallets, history, lock, api>>
intakeVars == <<txs, limits, today, intake>>
workerVars == <<logs, dl, sent, attempts, now, acked>>
vars == <<wallets, history, lock, api, txs, limits, today, intake,
          logs, dl, sent, attempts, now, acked>>

(* ------------------------- wallet service ------------------------------ *)

\* class-validator on UpdateBalanceDto under the global ValidationPipe
\* (whitelist, forbidNonWhitelisted): change_type must be a ChangeType and
\* no property outside the DTO may be present.
ValidUpdateBalanceDto(body) ==
  /\ body.change_type \in ChangeType
  /\ body.extra = {}

\* createWallet up to the storage transaction: findOne by user and
\* currency, ConflictException when a wallet is found.
CW_Request(c, u) ==
  /\ api[c].pc = "idle"
  /\ Len(history) < MaxHistory
  /\ api' = [api EXCEPT ![c] =
       IF wallets[u].exists THEN [IdleCall EXCEPT !.result = "Conflict"]
       ELSE [pc |-> "cw_insert", dto |-> [NoDto EXCEPT !.user_id = u],
             wallet |-> NoWallet, result |-> "none"]]
  /\ UNCHANGED <<wallets, history, lock, intakeVars, workerVars>>

\* The storage transaction of createWallet: the wallet row (balance 0,
\* ACTIVE, a fresh address), its primary address and the creation row of
\* balance_history. The table has an index on user_id and a unique key on
\* address only, so the INSERT succeeds also when the user has a wallet by
\* now; the history row of such a further wallet carries its own wallet id,
\* written -u.
CW_Insert(c) ==
  LET u == api[c].dto.user_id IN
  /\ api[c].pc = "cw_insert"
  /\ wallets' = [wallets EXCEPT ![u] =
       IF wallets[u].exists THEN [wallets[u] EXCEPT !.duplicates = @ + 1]
       ELSE [NoWallet EXCEPT !.exists = TRUE, !.status = "ACTIVE"]]
  /\ history' = Append(history,
       [wallet_id |-> IF wallets[u].exists THEN 0 - u ELSE u,
        old_balance |-> 0, new_balance |-> 0, amount |-> 0,
        change_type |-> "DEPOSIT", transaction_id |-> NoTxId])
  /\ api' = [api EXCEPT ![c] = [IdleCall EXCEPT !.result = "201"]]
  /\ UNCHANGED <<lock, intakeVars, workerVars>>

\* A findOne that takes no row lock.
LockFreeNoLock(u) == TRUE

\* The row lock of `findOne(... lock: pessimistic_write)`.
LockFree(u) == lock[u] = "none"

\* updateBalance without the insufficient-balance checks of its switch.
ComputeUpdateNoCheck(w, dto) ==
  LET amountNum == dto.amount
      credit == dto.change_type \in {"DEPOSIT", "TRANSFER_IN", "MINT", "UNFREEZE"}
      debit == dto.change_type \in {"WITHDRAWAL", "TRANSFER_OUT", "BURN", "FEE", "FREEZE"}
      newBalance == IF credit THEN w.balance + amountNum
                    ELSE IF debit THEN w.balance - amountNum
                    ELSE amountNum
      newFrozen == IF dto.change_type = "FREEZE" THEN w.frozen_balance + amountNum
                   ELSE IF dto.change_type = "UNFREEZE" THEN w.frozen_balance - amountNum
                   ELSE w.frozen_balance
  IN  IF w.status = "FROZEN" THEN [ok |-> FALSE, error |-> "Wallet is frozen", wallet |-> w]
      ELSE [ok |-> TRUE, error |-> "none",
            wallet |-> [w EXCEPT !.balance = newBalance, !.frozen_balance = newFrozen,
                                 !.last_transaction_at = now]]

\* The body of updateBalance after the wallet row was read under the lock:
\* the outcome for wallet row w and request dto.
ComputeUpdate(w, dto) ==
  LET amountNum == dto.amount
      oldBalance == w.balance
      credit == dto.change_type \in {"DEPOSIT", "TRANSFER_IN", "MINT", "UNFREEZE"}
      debit == dto.change_type \in {"WITHDRAWAL", "TRANSFER_OUT", "BURN", "FEE", "FREEZE"}
      newBalance == IF credit THEN oldBalance + amountNum
                    ELSE IF debit THEN oldBalance - amountNum
                    ELSE amountNum
      newFrozen == IF dto.change_type = "FREEZE" THEN w.frozen_balance + amountNum
                   ELSE IF dto.change_type = "UNFREEZE" THEN w.frozen_balance - amountNum
                   ELSE w.frozen_balance
  IN  IF w.status = "FROZEN" THEN [ok |-> FALSE, error |-> "Wallet is frozen", wallet |-> w]
      ELSE IF dto.change_type \notin ChangeType
        THEN [ok |-> FALSE, error |-> "Invalid change type", wallet |-> w]
      ELSE IF debit /\ oldBalance < amountNum
        THEN [ok |-> FALSE, error |-> "Insufficient balance", wallet |-> w]
      ELSE IF dto.change_type = "UNFREEZE" /\ w.frozen_balance < amountNum
        THEN [ok |-> FALSE, error |-> "Insufficient frozen balance", wallet |-> w]
      ELSE [ok |-> TRUE, error |-> "none",
            wallet |-> [w EXCEPT !.balance = newBalance, !.frozen_balance = newFrozen,
                                 !.last_transaction_at = now]]

\* logBalanceChange: the balance_history row of one accepted mutation.
HistoryRow(w, dto, out) ==
  [wallet_id |-> dto.user_id, old_balance |-> w.balance,
   new_balance |-> out.wallet.balance, amount |-> dto.amount,
   change_type |-> dto.change_type, transaction_id |-> dto.transaction_id]

\* The entry of updateBalance: the amount check, then startTransaction.
StartUpdate(dto) ==
  IF dto.amount <= 0 THEN [IdleCall EXCEPT !.result = "Invalid amount"]
  ELSE [pc |-> "started", dto |-> dto, wallet |-> NoWallet, result |-> "none"]

\* POST internal/wallets/update-balance arrives: the validation pipe, then
\* updateBalance.
UB_Request(c, body) ==
  /\ api[c].pc = "idle"
  /\ Len(history) < MaxHistory
  /\ api' = [api EXCEPT ![c] =
       IF ~ValidUpdateBalanceDto(body) THEN [IdleCall EXCEPT !.result = "validation"]
       ELSE StartUpdate(body)]
  /\ UNCHANGED <<wallets, history, lock, intakeVars, workerVars>>

\* findOne with the pessimistic write lock: waits while another transaction
\* holds the row; NotFound when there is no row.
UB_Lock(c) ==
  LET u == api[c].dto.user_id IN
  /\ api[c].pc = "started"
  /\ IF ~wallets[u].exists
       THEN /\ api' = [api EXCEPT ![c] = [IdleCall EXCEPT !.result = "Wallet not found"]]
            /\ UNCHANGED lock
       ELSE /\ LockFree(u)
            /\ lock' = [lock EXCEPT ![u] = c]
            /\ api' = [api EXCEPT ![c].pc = "locked", ![c].wallet = wallets[u]]
  /\ UNCHANGED <<wallets, history, intakeVars, workerVars>>

\* updateBalance that saves the wallet and commits without logBalanceChange.
UB_FinishNoHistory(c) ==
  LET dto == api[c].dto
      u == dto.user_id
      w == api[c].wallet
      out == ComputeUpdate(w, dto)
  IN
  /\ api[c].pc = "locked"
  /\ wallets' = IF out.ok
                  THEN [wallets EXCEPT
                          ![u].balance = out.wallet.balance,
                          ![u].frozen_balance = out.wallet.frozen_balance,
                          ![u].last_transaction_at = out.wallet.last_transaction_at]
                  ELSE wallets
  /\ api' = [api EXCEPT ![c] =
               [IdleCall EXCEPT !.result = IF out.ok THEN "200" ELSE out.error]]
  /\ lock' = [lock EXCEPT ![u] = IF lock[u] = c THEN "none" ELSE lock[u]]
  /\ UNCHANGED <<history, intakeVars, workerVars>>

\* The switch, save, logBalanceChange and commit (or throw and rollback) of
\* updateBalance; the row lock ends with the transaction.
UB_Finish(c) ==
  LET dto == api[c].dto
      u == dto.user_id
      w == api[c].wallet
      out == ComputeUpdate(w, dto)
  IN
  /\ api[c].pc = "locked"
  /\ IF out.ok
       THEN /\ wallets' = [wallets EXCEPT
                              ![u].balance = out.wallet.balance,
                              ![u].frozen_balance = out.wallet.frozen_balance,
                              ![u].last_transaction_at = out.wallet.last_transaction_at]
            /\ history' = Append(history, HistoryRow(w, dto, out))
            /\ api' = [api EXCEPT ![c] = [IdleCall EXCEPT !.result = "200"]]
       ELSE /\ UNCHANGED <<wallets, history>>
            /\ api' = [api EXCEPT ![c] = [IdleCall EXCEPT !.result = out.error]]
  /\ lock' = [lock EXCEPT ![u] = IF lock[u] = c THEN "none" ELSE lock[u]]
  /\ UNCHANGED <<intakeVars, workerVars>>

\* freezeWallet: findOne without a lock, the checks, then either the partial
\* freeze through updateBalance or the status change still to be saved.
FW_Request(c, u, amount) ==
  /\ api[c].pc = "idle"
  /\ amount # NoAmount => Len(history) < MaxHistory
  /\ api' = [api EXCEPT ![c] =
       IF ~wallets[u].exists THEN [IdleCall EXCEPT !.result = "Wallet not found"]
       ELSE IF wallets[u].status = "FROZEN"
         THEN [IdleCall EXCEPT !.result = "Wallet is already frozen"]
       ELSE IF amount # NoAmount
         THEN StartUpdate([NoDto EXCEPT !.user_id = u, !.amount = amount,
                                        !.change_type = "FREEZE"])
       ELSE [pc |-> "fw_save", dto |-> [NoDto EXCEPT !.user_id = u],
             wallet |-> wallets[u], result |-> "none"]]
  /\ UNCHANGED <<wallets, history, lock, intakeVars, workerVars>>

\* walletRepository.save(wallet) of the entity read earlier, with its status
\* set: the row takes the entity's column values. The UPDATE waits for a row
\* lock held by an updateBalance transaction.
SaveWallet(c, status) ==
  LET u == api[c].dto.user_id IN
  /\ LockFree(u)
  /\ wallets' = [wallets EXCEPT ![u] =
       [api[c].wallet EXCEPT !.status = status, !.duplicates = wallets[u].duplicates]]
  /\ api' = [api EXCEPT ![c] = [IdleCall EXCEPT !.result = "200"]]
  /\ UNCHANGED <<history, lock, intakeVars, workerVars>>

FW_Save(c) ==
  /\ api[c].pc = "fw_save"
  /\ SaveWallet(c, "FROZEN")

\* unfreezeWallet: findOne without a lock, then the partial unfreeze through
\* updateBalance or the status change still to be saved.
UW_Request(c, u, amount) ==
  /\ api[c].pc = "idle"
  /\ amount # NoAmount => Len(history) < MaxHistory
  /\ api' = [api EXCEPT ![c] =
       IF ~wallets[u].exists THEN [IdleCall EXCEPT !.result = "Wallet not found"]
       ELSE IF amount # NoAmount
         THEN StartUpdate([NoDto EXCEPT !.user_id = u, !.amount = amount,
                                        !.change_type = "UNFREEZE"])
       ELSE [pc |-> "uw_save", dto |-> [NoDto EXCEPT !.user_id = u],
             wallet |-> wallets[u], result |-> "none"]]
  /\ UNCHANGED <<wallets, history, lock, intakeVars, workerVars>>

UW_Save(c) ==
  /\ api[c].pc = "uw_save"
  /\ SaveWallet(c, "ACTIVE")

(* ------------------------ transaction service -------------------------- *)

\* TRANSACTION_FEE_RATE = 0.001, as the divisor of amount * 0.001.
FeeDivisor == 1000
\* createDefaultTransactionLimits: 10000 and 100000 tokens.
DefaultDailyLimit == 10000000
DefaultMonthlyLimit == 100000000
\* bulkTransfer: at most 100 transfers.
MaxBulkTransfers == 100

\* (amountNum * TRANSACTION_FEE_RATE).toFixed(8): a whole number of units for
\* the whole-token amounts used here.
Fee(amount) == amount \div FeeDivisor

NoLimits ==
  [exists |-> FALSE, daily_limit |-> 0, monthly_limit |-> 0, current_daily |-> 0,
   current_monthly |-> 0, daily_reset_date |-> 0, monthly_reset_date |-> 0,
   is_active |-> FALSE]

\* new Date(year, month + 1, 1): the first day of the next month.
NextMonthStart(d) == ((d \div DaysPerMonth) + 1) * DaysPerMonth

DefaultLimits(d) ==
  [exists |-> TRUE, daily_limit |-> DefaultDailyLimit,
   monthly_limit |-> DefaultMonthlyLimit, current_daily |-> 0,
   current_monthly |-> 0, daily_reset_date |-> d,
   monthly_reset_date |-> NextMonthStart(d), is_active |-> TRUE]

\* resetLimitsIfNeeded: the row as saved after the lazy reset.
ResetLimits(L, d) ==
  LET L1 == IF d >= L.daily_reset_date
              THEN [L EXCEPT !.current_daily = 0, !.daily_reset_date = d + 1]
              ELSE L
  IN  IF d >= L1.monthly_reset_date
        THEN [L1 EXCEPT !.current_monthly = 0, !.monthly_reset_date = NextMonthStart(d)]
        ELSE L1

\* checkTransactionLimits: the row it leaves behind (created by default,
\* reset) and its verdict.
CheckTransactionLimits(L, d, amount) ==
  LET L0 == IF L.exists THEN L ELSE DefaultLimits(d)
      L1 == ResetLimits(L0, d)
  IN  IF ~L0.is_active
        THEN [row |-> L0, result |-> "Transaction limits are disabled"]
      ELSE IF L1.current_daily + amount > L1.daily_limit
        THEN [row |-> L1, result |-> "Daily transaction limit exceeded"]
      ELSE IF L1.current_monthly + amount > L1.monthly_limit
        THEN [row |-> L1, result |-> "Monthly transaction limit exceeded"]
      ELSE [row |-> L1, result |-> "ok"]

\* updateTransactionLimitsUsage: the counters raised when a row exists.
UpdateUsage(L, amount) ==
  IF L.exists
    THEN [L EXCEPT !.current_daily = L.current_daily + amount,
                   !.current_monthly = L.current_monthly + amount]
    ELSE L

RECURSIVE SumAmounts(_)
SumAmounts(transfers) ==
  IF transfers = <<>> THEN 0
  ELSE Head(transfers).amount + SumAmounts(Tail(transfers))

Available(w) == w.balance - w.frozen_balance

IsAdmin(role) == role \in {"ADMIN", "SUPER_ADMIN"}

\* The owner debited by a request and the amount reserved against the limits.
Payer(req) ==
  IF req.op = "burn" THEN (IF req.from # 0 THEN req.from ELSE req.caller) ELSE req.caller

Debited(req) ==
  CASE req.op = "mint" -> 0
    [] req.op = "burn" -> req.amount
    [] req.op = "transfer" -> req.amount + Fee(req.amount)
    [] req.op = "bulk" -> SumAmounts(req.transfers) + Fee(SumAmounts(req.transfers))

\* mintTokens without the role check.
ValidateMintAnyRole(req) ==
  IF req.amount <= 0 THEN "Invalid amount"
  ELSE IF ~wallets[req.to].exists THEN "Wallet not found"
  ELSE "ok"

\* The checks of mintTokens, up to the storage transaction.
ValidateMint(req) ==
  IF req.role # "SUPER_ADMIN" THEN "Only SUPER_ADMIN can mint tokens"
  ELSE IF req.amount <= 0 THEN "Invalid amount"
  ELSE IF ~wallets[req.to].exists THEN "Wallet not found"
  ELSE "ok"

\* The checks of burnTokens, up to checkTransactionLimits.
ValidateBurn(req) ==
  IF Payer(req) # req.caller /\ ~IsAdmin(req.role) THEN "You can only burn your own tokens"
  ELSE IF req.amount <= 0 THEN "Invalid amount"
  ELSE IF ~wallets[Payer(req)].exists THEN "Wallet not found"
  ELSE IF Available(wallets[Payer(req)]) < req.amount THEN "Insufficient balance"
  ELSE "ok"

\* The checks of transferTokens, up to checkTransactionLimits.
ValidateTransfer(req) ==
  IF req.amount <= 0 THEN "Invalid amount"
  ELSE IF req.to = req.caller THEN "Cannot transfer to yourself"
  ELSE IF ~wallets[req.caller].exists THEN "Wallet not found"
  ELSE IF Available(wallets[req.caller]) < req.amount + Fee(req.amount)
    THEN "Insufficient balance"
  ELSE IF ~wallets[req.to].exists THEN "Wallet not found"
  ELSE IF wallets[req.to].status # "ACTIVE" THEN "Target wallet is not active"
  ELSE "ok"

\* The checks of bulkTransfer, up to the storage transaction.
ValidateBulk(req) ==
  LET n == Len(req.transfers)
      targets == {req.transfers[k].to_user_id : k \in 1..n}
  IN  IF ~IsAdmin(req.role) THEN "Only admins can perform bulk transfers"
      ELSE IF n = 0 THEN "No transfers provided"
      ELSE IF n > MaxBulkTransfers THEN "Maximum 100 transfers per bulk operation"
      ELSE IF \E k \in 1..n : req.transfers[k].amount <= 0 THEN "Invalid amount"
      ELSE IF ~wallets[req.caller].exists THEN "Wallet not found"
      ELSE IF Available(wallets[req.caller]) < Debited(req) THEN "Insufficient balance"
      ELSE IF req.caller \in targets THEN "Cannot transfer to yourself"
      ELSE IF \E u \in targets : ~wallets[u].exists \/ wallets[u].status # "ACTIVE"
        THEN "Target wallet not found or inactive"
      ELSE "ok"

Validate(req) ==
  CASE req.op = "mint" -> ValidateMint(req)
    [] req.op = "burn" -> ValidateBurn(req)
    [] req.op = "transfer" -> ValidateTransfer(req)
    [] req.op = "bulk" -> ValidateBulk(req)

\* The Transaction rows a request persists, all PENDING.
NewRows(req) ==
  CASE req.op = "mint" ->
         << [type |-> "MINT", from_user_id |-> 0, to_user_id |-> req.to,
             amount |-> req.amount, fee |-> 0, status |-> "PENDING"] >>
    [] req.op = "burn" ->
         << [type |-> "BURN", from_user_id |-> Payer(req), to_user_id |-> 0,
             amount |-> req.amount, fee |-> 0, status |-> "PENDING"] >>
    [] req.op = "transfer" ->
         << [type |-> "TRANSFER", from_user_id |-> req.caller, to_user_id |-> req.to,
             amount |-> req.amount, fee |-> Fee(req.amount), status |-> "PENDING"] >>
    [] req.op = "bulk" ->
         [k \in 1..Len(req.transfers) |->
           [type |-> "BULK_TRANSFER", from_user_id |-> req.caller,
            to_user_id |-> req.transfers[k].to_user_id,
            amount |-> req.transfers[k].amount,
            fee |-> Fee(req.transfers[k].amount), status |-> "PENDING"]]

NoReq == [op |-> "none", caller |-> 0, role |-> "none", from |-> 0, to |-> 0,
          amount |-> 0, transfers |-> <<>>]

IdleIntake == [pc |-> "idle", req |-> NoReq, result |-> "none", usage |-> NoLimits]

\* mintTokens / burnTokens / transferTokens / bulkTransfer up to the storage
\* transaction: authorization, validation, the wallet reads and, for burn
\* and transfer, checkTransactionLimits (which saves the row it creates or
\* resets).
IntakeCheck(i, req) ==
  LET v == Validate(req)
      p == Payer(req)
      c == CheckTransactionLimits(limits[p], today, Debited(req))
      limited == v = "ok" /\ req.op \in {"burn", "transfer"}
  IN
  /\ intake[i].pc = "idle"
  /\ v = "ok" => Len(txs) + Len(NewRows(req)) <= MaxTx
  /\ limits' = IF limited THEN [limits EXCEPT ![p] = c.row] ELSE limits
  /\ intake' = [intake EXCEPT ![i] =
       IF v # "ok" THEN [IdleIntake EXCEPT !.result = v, !.req = req]
       ELSE IF limited /\ c.result # "ok"
         THEN [IdleIntake EXCEPT !.result = c.result, !.req = req]
       ELSE [pc |-> "checked", req |-> req, result |-> "none", usage |-> NoLimits]]
  /\ UNCHANGED <<ledgerVars, workerVars, txs, today>>

\* updateTransactionLimitsUsage, its findOne inside the storage transaction:
\* the row the call will raise and save, read without a lock.
IntakeReadUsage(i) ==
  /\ intake[i].pc = "checked"
  /\ intake[i].req.op # "mint"
  /\ intake' = [intake EXCEPT ![i].pc = "usage",
                              ![i].usage = limits[Payer(intake[i].req)]]
  /\ UNCHANGED <<ledgerVars, workerVars, txs, limits, today>>

\* The row updateTransactionLimitsUsage works on: the one its findOne read,
\* or the stored one when the findOne and the save run back to back.
UsageRead(i) ==
  IF intake[i].pc = "usage" THEN intake[i].usage
  ELSE limits[Payer(intake[i].req)]

\* queryRunner.manager.save(limits) of updateTransactionLimitsUsage: the two
\* counters of the entity are written onto the stored row.
SaveUsage(stored, entity) ==
  IF entity.exists
    THEN [stored EXCEPT !.current_daily = entity.current_daily,
                        !.current_monthly = entity.current_monthly]
    ELSE stored

\* An intake call that persists its rows and also debits the payer's wallet.
IntakePersistDebit(i) ==
  LET req == intake[i].req
      p == Payer(req)
  IN
  /\ intake[i].pc \in {"checked", "usage"}
  /\ txs' = txs \o NewRows(req)
  /\ limits' = IF req.op = "mint" THEN limits
               ELSE [limits EXCEPT ![p] =
                       SaveUsage(@, UpdateUsage(UsageRead(i), Debited(req)))]
  /\ wallets' = IF req.op = "mint" THEN wallets
                ELSE [wallets EXCEPT ![p].balance = @ - Debited(req)]
  /\ intake' = [intake EXCEPT ![i] = [IdleIntake EXCEPT !.result = "PENDING", !.req = req]]
  /\ UNCHANGED <<history, lock, api, workerVars, today>>

\* The storage transaction of an intake call: the PENDING rows, the
\* updateTransactionLimitsUsage of the debited owner, publishTransactionToKafka
\* (which only logs) and the commit.
IntakePersist(i) ==
  LET req == intake[i].req
      p == Payer(req)
  IN
  /\ intake[i].pc \in {"checked", "usage"}
  /\ txs' = txs \o NewRows(req)
  /\ limits' = IF req.op = "mint" THEN limits
               ELSE [limits EXCEPT ![p] =
                       SaveUsage(@, UpdateUsage(UsageRead(i), Debited(req)))]
  /\ intake' = [intake EXCEPT ![i] = [IdleIntake EXCEPT !.result = "PENDING", !.req = req]]
  /\ UNCHANGED <<ledgerVars, workerVars, today>>

\* A failed storage transaction whose limits update is kept.
IntakePersistFailKeepUsage(i) ==
  LET req == intake[i].req
      p == Payer(req)
  IN
  /\ intake[i].pc \in {"checked", "usage"}
  /\ limits' = IF req.op = "mint" THEN limits
               ELSE [limits EXCEPT ![p] =
                       SaveUsage(@, UpdateUsage(UsageRead(i), Debited(req)))]
  /\ intake' = [intake EXCEPT ![i] =
       [IdleIntake EXCEPT !.result = "Failed to create transaction", !.req = req]]
  /\ UNCHANGED <<ledgerVars, workerVars, txs, today>>

\* The storage transaction of an intake call fails (a save, the limits
\* update or the commit throws): the catch block rolls back the rows and
\* the limits update and the call throws BadRequestException.
IntakePersistFail(i) ==
  /\ intake[i].pc \in {"checked", "usage"}
  /\ intake' = [intake EXCEPT ![i] =
       [IdleIntake EXCEPT !.result = "Failed to create transaction",
                          !.req = intake[i].req]]
  /\ UNCHANGED <<ledgerVars, workerVars, txs, limits, today>>

\* updateTransactionLimits, called by an admin.
UpdateTransactionLimits(role, u, daily, monthly) ==
  LET L0 == IF limits[u].exists THEN limits[u] ELSE DefaultLimits(today) IN
  /\ limits' = IF IsAdmin(role)
                 THEN [limits EXCEPT ![u] = [L0 EXCEPT !.daily_limit = daily,
                                                      !.monthly_limit = monthly]]
                 ELSE limits
  /\ UNCHANGED <<ledgerVars, workerVars, txs, today, intake>>

\* The date advances.
AdvanceDay ==
  /\ today < MaxDay
  /\ today' = today + 1
  /\ UNCHANGED <<ledgerVars, workerVars, txs, limits, intake>>

\* POST internal/process-transaction of the transaction service: answers
\* success and leaves the Transaction row as it is.
ProcessTransactionEndpoint(rows, t, status) == rows

(* ------------------------- transaction worker -------------------------- *)

\* processTransaction: max_retries of a new context and of a new log row.
DefaultMaxRetries == 3

NoLog ==
  [exists |-> FALSE, status |-> "NONE", retry_count |-> 0, max_retries |-> 0,
   next_retry_at |-> 0, error |-> FALSE, wallet_updates |-> <<>>]

IdleDelivery ==
  [pc |-> "idle", tx |-> NoTxId, existing |-> NoLog, retry_count |-> 0,
   max_retries |-> DefaultMaxRetries, txlog |-> NoLog, updates |-> <<>>,
   done |-> 0, result |-> "none", error |-> "none"]

\* A client body that names the mutation as UpdateBalanceDto does.
ClientBodyTyped(update, t) ==
  [user_id |-> update.user_id, amount |-> update.amount,
   change_type |-> IF update.operation = "CREDIT" THEN "DEPOSIT" ELSE "WITHDRAWAL",
   transaction_id |-> t, extra |-> {}]

\* The body WalletClientService.updateBalance posts: user_id, amount,
\* operation, transaction_id, description. It names the kind of mutation
\* `operation`, a property UpdateBalanceDto does not have, and carries no
\* change_type.
ClientBody(update, t) ==
  [user_id |-> update.user_id, amount |-> update.amount,
   change_type |-> "undefined", transaction_id |-> t, extra |-> {"operation"}]

\* The wallet updates processMint / processBurn / processTransfer build.
WalletUpdates(tx) ==
  CASE tx.type = "MINT" ->
         << [user_id |-> tx.to_user_id, amount |-> tx.amount, operation |-> "CREDIT"] >>
    [] tx.type = "BURN" ->
         << [user_id |-> tx.from_user_id, amount |-> tx.amount, operation |-> "DEBIT"] >>
    [] tx.type \in {"TRANSFER", "BULK_TRANSFER"} ->
         << [user_id |-> tx.from_user_id, amount |-> tx.amount + tx.fee,
             operation |-> "DEBIT"],
            [user_id |-> tx.to_user_id, amount |-> tx.amount, operation |-> "CREDIT"] >>

\* The reads and checks of processMint / processBurn / processTransfer before
\* the first wallet update: TRUE when none of them throws.
SettlementChecks(tx) ==
  CASE tx.type = "MINT" ->
         tx.to_user_id # 0 /\ wallets[tx.to_user_id].exists
    [] tx.type = "BURN" ->
         /\ tx.from_user_id # 0
         /\ wallets[tx.from_user_id].exists
         /\ ~(Available(wallets[tx.from_user_id]) < tx.amount)
    [] tx.type \in {"TRANSFER", "BULK_TRANSFER"} ->
         /\ tx.from_user_id # 0 /\ tx.to_user_id # 0
         /\ wallets[tx.from_user_id].exists
         /\ wallets[tx.to_user_id].exists
         /\ ~(Available(wallets[tx.from_user_id]) < tx.amount + tx.fee)

\* The message of the error the same reads and checks throw, "none" when
\* none of them throws.
SettlementError(tx) ==
  CASE tx.type = "MINT" ->
         IF tx.to_user_id = 0 THEN "missing user"
         ELSE IF ~wallets[tx.to_user_id].exists THEN "Target wallet not found"
         ELSE "none"
    [] tx.type = "BURN" ->
         IF tx.from_user_id = 0 THEN "missing user"
         ELSE IF ~wallets[tx.from_user_id].exists THEN "Source wallet not found"
         ELSE IF Available(wallets[tx.from_user_id]) < tx.amount
           THEN "Insufficient balance"
         ELSE "none"
    [] tx.type \in {"TRANSFER", "BULK_TRANSFER"} ->
         IF tx.from_user_id = 0 \/ tx.to_user_id = 0 THEN "missing user"
         ELSE IF ~wallets[tx.from_user_id].exists THEN "Source wallet not found"
         ELSE IF ~wallets[tx.to_user_id].exists THEN "Target wallet not found"
         ELSE IF Available(wallets[tx.from_user_id]) < tx.amount + tx.fee
           THEN "Insufficient balance"
         ELSE "none"

\* processTransaction entered for transaction t without the short circuit.
DeliverNoShortCircuit(d, t) ==
  LET existing == logs[t] IN
  /\ dl[d].pc \in {"idle", "done"}
  /\ t \in 1..Len(txs)
  /\ dl' = [dl EXCEPT ![d] =
       [IdleDelivery EXCEPT
          !.pc = "begin", !.tx = t, !.existing = existing,
          !.retry_count = IF existing.exists THEN existing.retry_count ELSE 0,
          !.max_retries = IF existing.exists THEN existing.max_retries
                          ELSE DefaultMaxRetries]]
  /\ UNCHANGED <<ledgerVars, intakeVars, logs, sent, attempts, now, acked>>

\* processTransaction entered for transaction t: the lookup of the log row
\* and the short circuit on COMPLETED and DEAD_LETTER.
Deliver(d, t) ==
  LET existing == logs[t] IN
  /\ dl[d].pc \in {"idle", "done"}
  /\ t \in 1..Len(txs)
  /\ dl' = [dl EXCEPT ![d] =
       IF existing.exists /\ existing.status = "COMPLETED"
         THEN [IdleDelivery EXCEPT !.pc = "done", !.tx = t, !.result = "success"]
       ELSE IF existing.exists /\ existing.status = "DEAD_LETTER"
         THEN [IdleDelivery EXCEPT !.pc = "done", !.tx = t, !.result = "failure"]
       ELSE [IdleDelivery EXCEPT
               !.pc = "begin", !.tx = t, !.existing = existing,
               !.retry_count = IF existing.exists THEN existing.retry_count ELSE 0,
               !.max_retries = IF existing.exists THEN existing.max_retries
                               ELSE DefaultMaxRetries]]
  /\ UNCHANGED <<ledgerVars, intakeVars, logs, sent, attempts, now, acked>>

\* No other processTransaction call holds, in its open storage transaction,
\* an uncommitted INSERT or UPDATE of the log row of transaction t
\* (transaction_id is a unique key: a write of the same key waits for it).
LogLockFree(d, t) ==
  \A d2 \in Deliveries \ {d} : ~(dl[d2].tx = t /\ dl[d2].txlog.exists)

\* startTransaction, the log row created or advanced to PROCESSING and saved
\* inside the storage transaction, then the PROCESSING status update. The
\* INSERT of a row whose transaction_id is already stored throws.
P_Begin(d) ==
  LET t == dl[d].tx
      e == dl[d].existing
      row == IF ~e.exists
               THEN [NoLog EXCEPT !.exists = TRUE, !.status = "PROCESSING",
                                  !.max_retries = DefaultMaxRetries]
               ELSE [e EXCEPT !.status = "PROCESSING", !.retry_count = e.retry_count + 1]
      duplicate == ~e.exists /\ logs[t].exists
  IN
  /\ LogLockFree(d, t)
  /\ dl' = [dl EXCEPT ![d] = IF duplicate
                               THEN [dl[d] EXCEPT !.pc = "failed", !.error = "Duplicate entry"]
                             ELSE [dl[d] EXCEPT !.pc = "dispatch", !.txlog = row]]
  /\ sent' = IF duplicate THEN sent ELSE [sent EXCEPT ![t] = "PROCESSING"]
  /\ txs' = IF duplicate THEN txs ELSE ProcessTransactionEndpoint(txs, t, "PROCESSING")
  /\ UNCHANGED <<ledgerVars, limits, today, intake, logs, attempts, now, acked>>

\* The switch on the type, up to the first wallet update. A check that
\* throws is caught and the storage transaction rolled back: the log row
\* saved in it is gone and its row lock released.
P_Dispatch(d) ==
  LET tx == txs[dl[d].tx] IN
  /\ dl' = [dl EXCEPT ![d] =
       IF SettlementChecks(tx)
         THEN [dl[d] EXCEPT !.pc = "update", !.updates = WalletUpdates(tx), !.done = 0]
         ELSE [dl[d] EXCEPT !.pc = "failed", !.txlog = NoLog,
                            !.error = SettlementError(tx)]]
  /\ UNCHANGED <<ledgerVars, intakeVars, logs, sent, attempts, now, acked>>

\* One walletClientService.updateBalance call: the POST to the wallet
\* service, which validates the body and then runs updateBalance in its own
\* storage transaction; any answer but 200 makes the call return false, the
\* processor throw and the catch block roll the storage transaction back.
P_Update(d) ==
  LET t == dl[d].tx
      k == dl[d].done + 1
      body == ClientBody(dl[d].updates[k], t)
      u == body.user_id
      w == wallets[u]
      served == ValidUpdateBalanceDto(body) /\ body.amount > 0 /\ w.exists
      out == ComputeUpdate(w, body)
      accepted == served /\ out.ok
  IN
  /\ served => LockFree(u)
  /\ wallets' = IF accepted
                  THEN [wallets EXCEPT
                          ![u].balance = out.wallet.balance,
                          ![u].frozen_balance = out.wallet.frozen_balance,
                          ![u].last_transaction_at = out.wallet.last_transaction_at]
                  ELSE wallets
  /\ history' = IF accepted THEN Append(history, HistoryRow(w, body, out)) ELSE history
  /\ dl' = [dl EXCEPT ![d] =
       IF ~accepted
         THEN [dl[d] EXCEPT !.pc = "failed", !.txlog = NoLog,
                            !.error = "Failed to update wallet balance"]
       ELSE IF k = Len(dl[d].updates) THEN [dl[d] EXCEPT !.pc = "commit", !.done = k]
       ELSE [dl[d] EXCEPT !.done = k]]
  /\ UNCHANGED <<lock, api, intakeVars, logs, sent, attempts, now, acked>>

\* result.success: the log row marked COMPLETED with the wallet updates,
\* saved, and the storage transaction committed.
P_Commit(d) ==
  LET t == dl[d].tx IN
  /\ logs' = [logs EXCEPT ![t] =
       [dl[d].txlog EXCEPT !.status = "COMPLETED", !.error = FALSE,
                           !.wallet_updates = dl[d].updates]]
  /\ dl' = [dl EXCEPT ![d].pc = "completed", ![d].txlog = NoLog]
  /\ UNCHANGED <<ledgerVars, intakeVars, sent, attempts, now, acked>>

\* The COMPLETED status update after the commit, and the return.
P_Completed(d) ==
  LET t == dl[d].tx IN
  /\ sent' = [sent EXCEPT ![t] = "COMPLETED"]
  /\ txs' = ProcessTransactionEndpoint(txs, t, "COMPLETED")
  /\ dl' = [dl EXCEPT ![d].pc = "done", ![d].result = "success"]
  /\ UNCHANGED <<ledgerVars, limits, today, intake, logs, attempts, now, acked>>

\* 2^n, for the backoff.
RECURSIVE Pow2(_)
Pow2(n) == IF n = 0 THEN 1 ELSE 2 * Pow2(n - 1)

\* handleTransactionFailure and moveToDeadLetterQueue: both are
\* transactionLogRepository.update({transaction_id}, ...), which changes the
\* committed row of that transaction id when there is one.
HandleTransactionFailure(row, retry_count, max_retries, clock) ==
  IF ~row.exists THEN row
  ELSE IF retry_count >= max_retries
    THEN [row EXCEPT !.status = "DEAD_LETTER", !.error = TRUE]
  ELSE [row EXCEPT !.status = "RETRYING", !.error = TRUE,
                   !.next_retry_at = clock + Pow2(retry_count),
                   !.retry_count = retry_count + 1]

\* The catch block after rollbackTransaction: handleTransactionFailure (its
\* update waits while another call holds the row), the FAILED status update
\* when the retries are used up, and the return.
P_Fail(d) ==
  LET t == dl[d].tx
      exhausted == dl[d].retry_count >= dl[d].max_retries
  IN
  /\ LogLockFree(d, t)
  /\ logs' = [logs EXCEPT ![t] =
       HandleTransactionFailure(logs[t], dl[d].retry_count, dl[d].max_retries, now)]
  /\ sent' = IF exhausted THEN [sent EXCEPT ![t] = "FAILED"] ELSE sent
  /\ txs' = IF exhausted THEN ProcessTransactionEndpoint(txs, t, "FAILED") ELSE txs
  /\ attempts' = [attempts EXCEPT ![t] =
                    IF attempts[t] < MaxAttempts THEN attempts[t] + 1 ELSE attempts[t]]
  /\ dl' = [dl EXCEPT ![d].pc = "done", ![d].result = "failure", ![d].txlog = NoLog]
  /\ UNCHANGED <<ledgerVars, limits, today, intake, now, acked>>

\* processTransaction advances by one step.
ProcessStep(d) ==
  CASE dl[d].pc = "begin" -> P_Begin(d)
    [] dl[d].pc = "dispatch" -> P_Dispatch(d)
    [] dl[d].pc = "update" -> P_Update(d)
    [] dl[d].pc = "commit" -> P_Commit(d)
    [] dl[d].pc = "completed" -> P_Completed(d)
    [] dl[d].pc = "failed" -> P_Fail(d)
    [] OTHER -> FALSE

\* A consumer that commits the offset whatever processTransaction returned.
FinishMessageAlways(d) ==
  /\ dl[d].pc = "done"
  /\ acked' = acked \cup {dl[d].tx}
  /\ dl' = [dl EXCEPT ![d] = IdleDelivery]
  /\ UNCHANGED <<ledgerVars, intakeVars, logs, sent, attempts, now>>

\* The rest of processMessage after processTransaction returned:
\* commitOffset when result.success, nothing otherwise.
FinishMessage(d) ==
  /\ dl[d].pc = "done"
  /\ acked' = IF dl[d].result = "success" THEN acked \cup {dl[d].tx} ELSE acked
  /\ dl' = [dl EXCEPT ![d] = IdleDelivery]
  /\ UNCHANGED <<ledgerVars, intakeVars, logs, sent, attempts, now>>

\* The worker process dies during a processTransaction call: the open
\* storage transaction is never committed, the message is not acknowledged.
Crash(d) ==
  /\ dl[d].pc \notin {"idle", "done"}
  /\ dl' = [dl EXCEPT ![d] = IdleDelivery]
  /\ UNCHANGED <<ledgerVars, intakeVars, logs, sent, attempts, now, acked>>

\* Time passes.
Tick ==
  /\ now < MaxNow
  /\ now' = now + 1
  /\ UNCHANGED <<ledgerVars, intakeVars, logs, dl, sent, attempts, acked>>

Init ==
  /\ wallets = [u \in Users |-> NoWallet]
  /\ history = <<>>
  /\ lock = [u \in Users |-> "none"]
  /\ api = [c \in ApiCallers |-> IdleCall]
  /\ txs = <<>>
  /\ limits = [u \in Users |-> NoLimits]
  /\ today = 0
  /\ intake = [i \in IntakeSlots |-> IdleIntake]
  /\ logs = [t \in 1..MaxTx |-> NoLog]
  /\ dl = [d \in Deliveries |-> IdleDelivery]
  /\ sent = [t \in 1..MaxTx |-> "none"]
  /\ attempts = [t \in 1..MaxTx |-> 0]
  /\ now = 0
  /\ acked = {}

LedgerUsers == {1}

ApiChangeTypes == {"MINT", "BURN", "FREEZE", "UNFREEZE", "ADJUSTMENT"}

ApiBodies ==
  [user_id : Users, amount : ApiAmounts, change_type : ApiChangeTypes,
   transaction_id : {NoTxId}, extra : {{}}]

\* Credits that would take a balance past MaxBalance are not issued.
InBounds(body) ==
  body.change_type \in {"MINT", "UNFREEZE", "ADJUSTMENT"}
    => wallets[body.user_id].balance + body.amount <= MaxBalance

NextLedger ==
  \/ \E c \in ApiCallers, u \in LedgerUsers : CW_Request(c, u)
  \/ \E c \in ApiCallers : CW_Insert(c)
  \/ \E c \in ApiCallers, body \in ApiBodies : InBounds(body) /\ UB_Request(c, body)
  \/ \E c \in ApiCallers, u \in Users, a \in {NoAmount, 1000} : FW_Request(c, u, a)
  \/ \E c \in ApiCallers : FW_Save(c)
  \/ \E c \in ApiCallers, u \in Users, a \in {NoAmount, 1000} : UW_Request(c, u, a)
  \/ \E c \in ApiCallers : UW_Save(c)
  \/ \E c \in ApiCallers : UB_Lock(c)
  \/ \E c \in ApiCallers : UB_Finish(c)

SpecLedger == Init /\ [][NextLedger]_vars

(* C4: every wallet has balance >= 0 and frozen_balance >= 0 in every
   reachable state of the ledger, under any interleaving of updateBalance
   calls of every kind and of full-wallet freeze / unfreeze calls. *)
C4_NonNegative ==
  \A u \in Users : wallets[u].balance >= 0 /\ wallets[u].frozen_balance >= 0

C4_Witness ==
  \E u \in Users :
    /\ wallets[u].exists /\ wallets[u].balance = 0 /\ wallets[u].frozen_balance > 0
    /\ \E i \in 1..Len(history) : history[i].change_type = "FREEZE"

(* C16: every updateBalance call that is accepted commits the new balance,
   last_transaction_at and exactly one appended balance_history row
   together; every call that is rejected leaves the wallet rows and the
   history as they were. So updateBalance writes one history row per
   accepted mutation and none otherwise. *)
C16_AllOrNothing ==
  [][\A c \in ApiCallers :
       (api[c].pc \in {"started", "locked"} /\ api'[c].pc = "idle") =>
         LET u == api[c].dto.user_id IN
         IF api'[c].result = "200"
           THEN /\ Len(history') = Len(history) + 1
                /\ SubSeq(history', 1, Len(history)) = history
                /\ history'[Len(history')].wallet_id = u
                /\ history'[Len(history')].change_type = api[c].dto.change_type
                /\ wallets'[u].balance = history'[Len(history')].new_balance
                /\ wallets'[u].last_transaction_at = now
                /\ \A v \in Users \ {u} : wallets'[v] = wallets[v]
           ELSE wallets' = wallets /\ history' = history]_vars

C16_Witness ==
  /\ \E c \in ApiCallers : api[c].pc = "idle" /\ api[c].result = "Insufficient balance"
  /\ \E c \in ApiCallers : api[c].pc = "idle" /\ api[c].result = "200"
  /\ \E i \in 1..Len(history) : history[i].change_type = "BURN"
  /\ wallets[1].last_transaction_at = now

CreditKinds == {"DEPOSIT", "TRANSFER_IN", "MINT", "UNFREEZE"}
DebitKinds == {"WITHDRAWAL", "TRANSFER_OUT", "BURN", "FEE", "FREEZE"}

\* The balance_history rows of one wallet before row i.
Earlier(i) == {j \in 1..(i - 1) : history[j].wallet_id = history[i].wallet_id}

(* C17: every balance_history row has new_balance = old_balance + amount
   for a credit kind and new_balance = old_balance - amount for a debit
   kind, for every change type updateBalance accepts, ADJUSTMENT included;
   and its old_balance is the new_balance of the previous row of that
   wallet. *)
C17_HistoryArithmetic ==
  \A i \in 1..Len(history) :
    LET r == history[i] IN
    /\ r.change_type \in CreditKinds => r.new_balance = r.old_balance + r.amount
    /\ r.change_type \in DebitKinds => r.new_balance = r.old_balance - r.amount
    /\ r.change_type = "ADJUSTMENT" =>
         (r.new_balance = r.old_balance + r.amount \/ r.new_balance = r.old_balance - r.amount)
    /\ Earlier(i) # {} =>
         r.old_balance = history[CHOOSE j \in Earlier(i) : \A k \in Earlier(i) : k <= j].new_balance

\* A step of caller c that ends an updateBalance call.
EndsUpdate(c) == api[c].pc = "locked" /\ api'[c].pc = "idle"

\* A step of caller c that is the save of a full-wallet freeze or unfreeze.
EndsFullFreeze(c) == api[c].pc \in {"fw_save", "uw_save"} /\ api'[c].pc = "idle"

(* C24: updateBalance rejects a mutation, leaving wallet and history
   unchanged, whenever the wallet is not ACTIVE, except that a mutation of
   kind UNFREEZE or ADJUSTMENT is not refused for the status of the
   wallet. *)
C24_StatusGate ==
  [][\A c \in ApiCallers :
       LET u == api[c].dto.user_id IN
       (EndsUpdate(c) /\ wallets[u].status # "ACTIVE") =>
         IF api[c].dto.change_type \in {"UNFREEZE", "ADJUSTMENT"}
           THEN api'[c].result # "Wallet is frozen"
           ELSE /\ api'[c].result # "200"
                /\ wallets' = wallets /\ history' = history]_vars

\* FREEZE x accepted on wallet row w is undone by UNFREEZE x.
FreezeRoundTrip(w, x) ==
  LET dtoF == [NoDto EXCEPT !.amount = x, !.change_type = "FREEZE"]
      dtoU == [NoDto EXCEPT !.amount = x, !.change_type = "UNFREEZE"]
      f == ComputeUpdate(w, dtoF)
      g == ComputeUpdate(f.wallet, dtoU)
  IN  f.ok => /\ g.ok
              /\ g.wallet.balance = w.balance
              /\ g.wallet.frozen_balance = w.frozen_balance

(* C25: an accepted updateBalance FREEZE of x lowers balance by x and
   raises frozen_balance by x, an accepted UNFREEZE of x does the reverse,
   so balance + frozen_balance is unchanged; FREEZE is rejected when x
   exceeds balance and UNFREEZE when x exceeds frozen_balance; FREEZE x
   followed by UNFREEZE x restores both fields. *)
C25_FreezeConserves ==
  [][/\ \A c \in ApiCallers :
          LET u == api[c].dto.user_id
              x == api[c].dto.amount
              k == api[c].dto.change_type
              w == wallets[u]
              w2 == wallets'[u]
          IN
          (EndsUpdate(c) /\ k \in {"FREEZE", "UNFREEZE"}) =>
            /\ api'[c].result = "200" =>
                 /\ w2.balance = IF k = "FREEZE" THEN w.balance - x ELSE w.balance + x
                 /\ w2.frozen_balance =
                      IF k = "FREEZE" THEN w.frozen_balance + x ELSE w.frozen_balance - x
                 /\ w2.balance + w2.frozen_balance = w.balance + w.frozen_balance
            /\ ((k = "FREEZE" /\ x > w.balance) \/ (k = "UNFREEZE" /\ x > w.frozen_balance)) =>
                 /\ api'[c].result # "200"
                 /\ wallets' = wallets /\ history' = history
     /\ \A u \in Users, x \in ApiAmounts :
          (wallets[u].exists /\ x > 0) => FreezeRoundTrip(wallets[u], x)]_vars

C25_Witness ==
  /\ \E i, j \in 1..Len(history) :
       /\ i < j
       /\ history[i].wallet_id = 1 /\ history[i].change_type = "FREEZE"
       /\ history[j].wallet_id = 1 /\ history[j].change_type = "UNFREEZE"
       /\ history[i].amount = history[j].amount
       /\ wallets[1].balance = history[i].old_balance
  /\ wallets[1].frozen_balance = 0
  /\ \A c \in ApiCallers : api[c].pc = "idle"

(* C26: a freezeWallet or unfreezeWallet call without an amount flips the
   wallet status and appends, in the same atomic unit, one zero-delta
   balance_history row for that wallet. *)
C26_FullFreezeAudited ==
  [][\A c \in ApiCallers :
       LET u == api[c].dto.user_id IN
       (EndsFullFreeze(c) /\ api'[c].result = "200") =>
         /\ wallets'[u].status = IF api[c].pc = "fw_save" THEN "FROZEN" ELSE "ACTIVE"
         /\ Len(history') = Len(history) + 1
         /\ SubSeq(history', 1, Len(history)) = history
         /\ history'[Len(history')].wallet_id = u
         /\ history'[Len(history')].amount = 0
         /\ history'[Len(history')].new_balance = history'[Len(history')].old_balance]_vars

(* C27: a full-wallet freezeWallet or unfreezeWallet leaves balance and
   frozen_balance of the wallet exactly as the last committed updateBalance
   left them, also when it runs concurrently with an updateBalance on the
   same wallet. *)
C27_FreezeKeepsBalance ==
  [][\A c \in ApiCallers :
       LET u == api[c].dto.user_id IN
       EndsFullFreeze(c) =>
         /\ wallets'[u].balance = wallets[u].balance
         /\ wallets'[u].frozen_balance = wallets[u].frozen_balance]_vars

(* C28: there is at most one wallet per user and currency in every
   reachable state, also when two createWallet calls for the same user run
   concurrently; the second of them is rejected with a conflict. *)
C28_UniqueWallet ==
  \A u \in Users : wallets[u].duplicates = 0

(* Two debits against one wallet, in flight together: the wallet holds B,
   each amount fits B and the two together exceed it. *)
DebitTypes == {"WITHDRAWAL", "TRANSFER_OUT", "BURN", "FEE"}

InitDebits ==
  \E B \in {1000, 2000, 3000}, a1 \in Amounts, a2 \in Amounts,
     k1 \in DebitTypes, k2 \in DebitTypes :
    /\ a1 <= B /\ a2 <= B /\ a1 + a2 > B
    /\ wallets = [u \in Users |->
         IF u = 1 THEN [exists |-> TRUE, balance |-> B, frozen_balance |-> 0,
                        status |-> "ACTIVE", last_transaction_at |-> 0,
                        duplicates |-> 0]
         ELSE NoWallet]
    /\ history =
         << [wallet_id |-> 1, old_balance |-> 0, new_balance |-> 0, amount |-> 0,
             change_type |-> "DEPOSIT", transaction_id |-> NoTxId],
            [wallet_id |-> 1, old_balance |-> 0, new_balance |-> B, amount |-> B,
             change_type |-> "MINT", transaction_id |-> NoTxId] >>
    /\ lock = [u \in Users |-> "none"]
    /\ api = [c \in ApiCallers |->
         StartUpdate([NoDto EXCEPT !.user_id = 1,
                                   !.amount = IF c = "a1" THEN a1 ELSE a2,
                                   !.change_type = IF c = "a1" THEN k1 ELSE k2])]
    /\ txs = <<>>
    /\ limits = [u \in Users |-> NoLimits]
    /\ today = 0
    /\ intake = [i \in IntakeSlots |-> IdleIntake]
    /\ logs = [t \in 1..MaxTx |-> NoLog]
    /\ dl = [d \in Deliveries |-> IdleDelivery]
    /\ sent = [t \in 1..MaxTx |-> "none"]
    /\ attempts = [t \in 1..MaxTx |-> 0]
    /\ now = 0
    /\ acked = {}

NextDebits ==
  \/ \E c \in ApiCallers : UB_Lock(c)
  \/ \E c \in ApiCallers : UB_Finish(c)

SpecDebits == InitDebits /\ [][NextDebits]_vars

BothDebitsDone == \A c \in ApiCallers : api[c].pc = "idle" /\ api[c].result # "none"

(* C5: of two concurrent debits on one wallet that each fit the balance but
   together exceed it, exactly one is accepted and the other is rejected
   with "Insufficient balance" when it reads the row under the lock; the
   final balance is the initial balance minus the accepted debit. *)
C5_NoLostUpdate ==
  BothDebitsDone =>
    /\ {api[c].result : c \in ApiCallers} = {"200", "Insufficient balance"}
    /\ Len(history) = 3
    /\ history[3].old_balance = history[2].new_balance
    /\ wallets[1].balance = history[2].new_balance - history[3].amount
    /\ wallets[1].balance >= 0

C5_Witness ==
  /\ BothDebitsDone
  /\ Len(history) = 3
  /\ wallets[1].balance = 1000 /\ history[3].amount = 2000

(* ----------------------- the settlement pipeline ----------------------- *)

\* The wallets, funded: both users hold an ACTIVE wallet, user 1 with
\* MaxBalance on it, as createWallet and one accepted MINT leave them.
FundedWallets ==
  [u \in Users |-> [exists |-> TRUE, balance |-> IF u = 1 THEN MaxBalance ELSE 0,
                    frozen_balance |-> 0, status |-> "ACTIVE",
                    last_transaction_at |-> IF u = 1 THEN 0 ELSE NoTime,
                    duplicates |-> 0]]

FundedHistory ==
  << [wallet_id |-> 1, old_balance |-> 0, new_balance |-> 0, amount |-> 0,
      change_type |-> "DEPOSIT", transaction_id |-> NoTxId],
     [wallet_id |-> 2, old_balance |-> 0, new_balance |-> 0, amount |-> 0,
      change_type |-> "DEPOSIT", transaction_id |-> NoTxId],
     [wallet_id |-> 1, old_balance |-> 0, new_balance |-> MaxBalance, amount |-> MaxBalance,
      change_type |-> "MINT", transaction_id |-> NoTxId] >>

InitPipeline ==
  /\ wallets = FundedWallets
  /\ history = FundedHistory
  /\ lock = [u \in Users |-> "none"]
  /\ api = [c \in ApiCallers |-> IdleCall]
  /\ txs = <<>>
  /\ limits = [u \in Users |-> NoLimits]
  /\ today = 0
  /\ intake = [i \in IntakeSlots |-> IdleIntake]
  /\ logs = [t \in 1..MaxTx |-> NoLog]
  /\ dl = [d \in Deliveries |-> IdleDelivery]
  /\ sent = [t \in 1..MaxTx |-> "none"]
  /\ attempts = [t \in 1..MaxTx |-> 0]
  /\ now = 0
  /\ acked = {}

\* The intake requests of the pipeline: user 1 pays, user 2 receives.
Requests ==
  { [NoReq EXCEPT !.op = "mint", !.caller = 1, !.role = "SUPER_ADMIN", !.to = 2,
                  !.amount = 1000],
    [NoReq EXCEPT !.op = "burn", !.caller = 1, !.role = "USER", !.amount = 1000],
    [NoReq EXCEPT !.op = "transfer", !.caller = 1, !.role = "USER", !.to = 2,
                  !.amount = 1000],
    [NoReq EXCEPT !.op = "bulk", !.caller = 1, !.role = "ADMIN",
                  !.transfers = << [to_user_id |-> 2, amount |-> 1000] >>] }

Next ==
  \/ \E req \in Requests : IntakeCheck("i1", req)
  \/ IntakePersist("i1")
  \/ FW_Request("a1", 2, NoAmount)
  \/ FW_Save("a1")
  \/ \E d \in Deliveries, t \in 1..MaxTx : Deliver(d, t)
  \/ \E d \in Deliveries : ProcessStep(d)
  \/ \E d \in Deliveries : Crash(d)
  \/ Tick

Spec == InitPipeline /\ [][Next]_vars

\* The balance_history rows that carry transaction id t for wallet u.
Applied(t, u) ==
  {i \in 1..Len(history) : history[i].transaction_id = t /\ history[i].wallet_id = u}

\* The users whose wallets transaction row tx debits or credits.
Legs(tx) == {WalletUpdates(tx)[k].user_id : k \in 1..Len(WalletUpdates(tx))}

\* A processTransaction call for t has returned.
Returned(t) == \E d \in Deliveries : dl[d].pc = "done" /\ dl[d].tx = t

\* The wallets of tx can take its mutation: all ACTIVE, the debited one with
\* enough on it.
CanSettle(tx) ==
  /\ \A u \in Legs(tx) : wallets[u].exists /\ wallets[u].status = "ACTIVE"
  /\ tx.from_user_id # 0 => ~(Available(wallets[tx.from_user_id]) < tx.amount + tx.fee)

(* C1: however often a transaction id is delivered to processTransaction
   (in sequence, concurrently, after a failed attempt or after a crash),
   each wallet mutation of that transaction is applied exactly once in
   total: never twice, and once as soon as a delivery has returned while the
   wallets can take it. *)
C1_ExactlyOnce ==
  \A t \in 1..Len(txs) : \A u \in Legs(txs[t]) :
    /\ Cardinality(Applied(t, u)) <= 1
    /\ (Returned(t) /\ CanSettle(txs[t])) => Cardinality(Applied(t, u)) = 1

(* C2: in every reachable state, whatever step of processTransaction failed
   or was cut short by a crash, the log row of a transaction is COMPLETED if
   and only if wallet mutations of that transaction are committed, and then
   all of them are. *)
C2_CrashConsistent ==
  \A t \in 1..MaxTx :
    LET completed == logs[t].exists /\ logs[t].status = "COMPLETED"
        mutated == \E u \in Users : Applied(t, u) # {}
    IN  /\ completed <=> mutated
        /\ completed => /\ t <= Len(txs)
                        /\ \A u \in Legs(txs[t]) : Applied(t, u) # {}

C2_Witness ==
  \E t \in 1..Len(txs) :
    /\ attempts[t] >= 2
    /\ ~(logs[t].exists /\ logs[t].status = "COMPLETED")
    /\ \A u \in Users : Applied(t, u) = {}
    /\ wallets[1].balance = MaxBalance

(* C3: no state shows one leg of a TRANSFER without the other: the debit of
   the source is committed exactly when the credit of the destination is,
   also when the credit cannot be made (destination frozen, call failed). *)
C3_NoPartialTransfer ==
  \A t \in 1..Len(txs) :
    txs[t].type = "TRANSFER" =>
      (Applied(t, txs[t].from_user_id) = {} <=> Applied(t, txs[t].to_user_id) = {})

C3_Witness ==
  \E t \in 1..Len(txs), d \in Deliveries :
    /\ txs[t].type = "TRANSFER"
    /\ dl[d].pc = "done" /\ dl[d].tx = t /\ dl[d].result = "failure"
    /\ wallets[txs[t].to_user_id].status = "FROZEN"
    /\ Applied(t, txs[t].from_user_id) = {} /\ Applied(t, txs[t].to_user_id) = {}
    /\ wallets[txs[t].from_user_id].balance = MaxBalance

\* Transaction t has failed for good: its log is in DEAD_LETTER, it was
\* reported FAILED, or more attempts than max_retries allows have failed.
Terminal(t) ==
  \/ logs[t].exists /\ logs[t].status = "DEAD_LETTER"
  \/ sent[t] = "FAILED"
  \/ attempts[t] > DefaultMaxRetries

(* C7: reserve followed by release returns the limit counters to their
   values before the reservation: once every transaction that reserved
   against an owner's limits has failed for good, that owner's current_daily
   and current_monthly are back at 0, where they started. *)
C7_RoundTrip ==
  \A p \in Users :
    LET mine == {t \in 1..Len(txs) : txs[t].from_user_id = p} IN
    (limits[p].exists /\ mine # {} /\ \A t \in mine : Terminal(t))
      => (limits[p].current_daily = 0 /\ limits[p].current_monthly = 0)

(* C8: the failure of attempt k = 1, 2, 3 of a transaction leaves its log
   row stored in RETRYING with retry_count k and next_retry_at = now +
   30 s * 2^(k-1); the failure of the 4th attempt leaves it in DEAD_LETTER
   and reports FAILED; from the first delivery on, when no row exists. *)
C8_RetrySchedule ==
  [][\A d \in Deliveries :
       (dl[d].pc = "failed" /\ dl'[d].pc = "done") =>
         LET t == dl[d].tx
             k == attempts'[t]
         IN  IF k <= DefaultMaxRetries
               THEN /\ logs'[t].exists
                    /\ logs'[t].status = "RETRYING"
                    /\ logs'[t].retry_count = k
                    /\ logs'[t].next_retry_at = now + Pow2(k - 1)
               ELSE /\ logs'[t].exists
                    /\ logs'[t].status = "DEAD_LETTER"
                    /\ sent'[t] = "FAILED"]_vars

(* C21: once the first attempt of a transaction has finished, also when it
   failed, the log row of that transaction is stored (and there is one row
   per transaction id, logs being keyed by the id). *)
C21_LogAnchored ==
  \A t \in 1..MaxTx : attempts[t] >= 1 => logs[t].exists

(* C10: a MINT of amount A to a user whose wallet exists and is ACTIVE,
   delivered with no failure injected, returns success with the wallet
   credited A by one balance-history row carrying the transaction id, the
   log row COMPLETED with that wallet update attached and the Transaction
   row COMPLETED. *)
C10_MintOutcome ==
  \A d \in Deliveries :
    LET t == dl[d].tx IN
    (dl[d].pc = "done" /\ txs[t].type = "MINT"
       /\ wallets[txs[t].to_user_id].status = "ACTIVE") =>
      LET u == txs[t].to_user_id IN
      /\ dl[d].result = "success"
      /\ Cardinality(Applied(t, u)) = 1
      /\ \A i \in Applied(t, u) :
           history[i].new_balance = history[i].old_balance + txs[t].amount
      /\ wallets[u].balance >= FundedWallets[u].balance + txs[t].amount
      /\ logs[t].exists /\ logs[t].status = "COMPLETED"
      /\ logs[t].wallet_updates = WalletUpdates(txs[t])
      /\ txs[t].status = "COMPLETED"

(* C11: a TRANSFER of amount A with fee F, delivered while its wallets can
   take it, settles as COMPLETED with the source balance lowered by exactly
   A + F in one history row and the destination balance raised by exactly A
   in one history row, so that the balances and the fee collected change by
   zero in total. *)
C11_TransferConservation ==
  \A d \in Deliveries :
    LET t == dl[d].tx IN
    (dl[d].pc = "done" /\ txs[t].type = "TRANSFER"
       /\ wallets[txs[t].to_user_id].status = "ACTIVE") =>
      LET src == txs[t].from_user_id
          dst == txs[t].to_user_id
      IN
      /\ dl[d].result = "success"
      /\ logs[t].exists /\ logs[t].status = "COMPLETED"
      /\ Cardinality(Applied(t, src)) = 1
      /\ Cardinality(Applied(t, dst)) = 1
      /\ \A i \in Applied(t, src) :
           history[i].new_balance = history[i].old_balance - (txs[t].amount + txs[t].fee)
      /\ \A i \in Applied(t, dst) :
           history[i].new_balance = history[i].old_balance + txs[t].amount
      /\ \A i \in Applied(t, src), j \in Applied(t, dst) :
           (history[i].new_balance - history[i].old_balance)
             + (history[j].new_balance - history[j].old_balance) + txs[t].fee = 0

(* ------------------------------- intake -------------------------------- *)

\* The limits rows an admin may have stored for user 1 through
\* updateTransactionLimits before any intake, or none.
LimitChoices ==
  {NoLimits} \cup
  {[DefaultLimits(0) EXCEPT !.daily_limit = d, !.monthly_limit = m] :
     d \in {1000, 2000}, m \in {2000, DefaultMonthlyLimit}}

InitIntake ==
  \E L \in LimitChoices :
    /\ wallets = FundedWallets
    /\ history = FundedHistory
    /\ lock = [u \in Users |-> "none"]
    /\ api = [c \in ApiCallers |-> IdleCall]
    /\ txs = <<>>
    /\ limits = [u \in Users |-> IF u = 1 THEN L ELSE NoLimits]
    /\ today = 0
    /\ intake = [i \in IntakeSlots |-> IdleIntake]
    /\ logs = [t \in 1..MaxTx |-> NoLog]
    /\ dl = [d \in Deliveries |-> IdleDelivery]
    /\ sent = [t \in 1..MaxTx |-> "none"]
    /\ attempts = [t \in 1..MaxTx |-> 0]
    /\ now = 0
    /\ acked = {}

IntakeRequests ==
  Requests \cup
  { [NoReq EXCEPT !.op = "burn", !.caller = 1, !.role = "USER", !.amount = 2000],
    [NoReq EXCEPT !.op = "burn", !.caller = 2, !.role = "USER", !.from = 1,
                  !.amount = 1000],
    [NoReq EXCEPT !.op = "mint", !.caller = 1, !.role = "USER", !.to = 2,
                  !.amount = 1000],
    [NoReq EXCEPT !.op = "bulk", !.caller = 1, !.role = "ADMIN",
                  !.transfers = << [to_user_id |-> 2, amount |-> 1000],
                                   [to_user_id |-> 2, amount |-> 1000] >>] }

\* Requests the intake rules reject, with the ones above.
PolicyRequests ==
  IntakeRequests \cup
  { [NoReq EXCEPT !.op = "burn", !.caller = 2, !.role = "USER", !.amount = 1000],
    [NoReq EXCEPT !.op = "transfer", !.caller = 1, !.role = "USER", !.to = 1,
                  !.amount = 1000],
    [NoReq EXCEPT !.op = "bulk", !.caller = 1, !.role = "USER",
                  !.transfers = << [to_user_id |-> 2, amount |-> 1000] >>],
    [NoReq EXCEPT !.op = "bulk", !.caller = 1, !.role = "ADMIN"],
    [NoReq EXCEPT !.op = "bulk", !.caller = 1, !.role = "ADMIN",
                  !.transfers = << [to_user_id |-> 2, amount |-> 1000],
                                   [to_user_id |-> 1, amount |-> 1000] >>],
    [NoReq EXCEPT !.op = "bulk", !.caller = 1, !.role = "ADMIN",
                  !.transfers = [k \in 1..(MaxBulkTransfers + 1) |->
                                   [to_user_id |-> 2, amount |-> 1]]] }

NextIntake ==
  \/ \E i \in IntakeSlots, req \in IntakeRequests : IntakeCheck(i, req)
  \/ \E i \in IntakeSlots : IntakeReadUsage(i)
  \/ \E i \in IntakeSlots : IntakePersist(i)
  \/ AdvanceDay

SpecIntake == InitIntake /\ [][NextIntake]_vars

\* One intake call at a time, over every kind of request, with storage
\* transactions that may fail, while an admin may freeze a wallet.
NextPolicy ==
  \/ \E req \in PolicyRequests : IntakeCheck("i1", req)
  \/ IntakePersist("i1")
  \/ IntakePersistFail("i1")
  \/ \E u \in Users : FW_Request("a1", u, NoAmount)
  \/ FW_Save("a1")
  \/ AdvanceDay

SpecPolicy == InitIntake /\ [][NextPolicy]_vars

(* C6: right after any successful burnTokens, transferTokens or bulkTransfer
   call, also when several calls for one owner run together, that owner's
   current_daily is at most daily_limit and current_monthly at most
   monthly_limit: a request that would take a counter past its limit is
   rejected and stores no transaction. *)
C6_LimitBound ==
  [][\A i \in IntakeSlots :
       (intake[i].pc \in {"checked", "usage"} /\ intake'[i].result = "PENDING"
          /\ intake[i].req.op # "mint") =>
         LET p == Payer(intake[i].req) IN
         limits'[p].exists =>
           /\ limits'[p].current_daily <= limits'[p].daily_limit
           /\ limits'[p].current_monthly <= limits'[p].monthly_limit]_vars

(* C13: no step of mintTokens, burnTokens, transferTokens or bulkTransfer,
   whether the call succeeds or fails, changes the balance, frozen_balance
   or status of any wallet. *)
C13_IntakeFrame ==
  [][intake' # intake =>
       \A u \in Users :
         /\ wallets'[u].balance = wallets[u].balance
         /\ wallets'[u].frozen_balance = wallets[u].frozen_balance
         /\ wallets'[u].status = wallets[u].status
         /\ wallets'[u].exists = wallets[u].exists]_vars

C13_Witness ==
  /\ intake["i1"].pc = "idle" /\ intake["i1"].result = "Insufficient balance"
  /\ Len(txs) = 2 /\ txs[1].type = "TRANSFER" /\ txs[2].type = "BURN"

\* The used amounts of an owner, 0 while the owner has no limits row.
Used(L) == IF L.exists THEN <<L.current_daily, L.current_monthly>> ELSE <<0, 0>>

(* C14: a step of an intake call that does not end the call with its
   PENDING result (a rejection by authorization, validation, wallet, balance
   or limits, the check phase of a call, or a failed storage transaction
   after the usage update) adds no Transaction row and raises no owner's
   current_daily or current_monthly; a call that succeeds persists all the
   rows of its request, so a bulkTransfer persists all legs or none. *)
C14_NoResidue ==
  [][\A i \in IntakeSlots :
       intake'[i] # intake[i] =>
         IF intake[i].pc \in {"checked", "usage"} /\ intake'[i].result = "PENDING"
           THEN /\ Len(txs') = Len(txs) + Len(NewRows(intake[i].req))
                /\ SubSeq(txs', 1, Len(txs)) = txs
           ELSE /\ txs' = txs
                /\ \A u \in Users :
                     /\ Used(limits'[u])[1] <= Used(limits[u])[1]
                     /\ Used(limits'[u])[2] <= Used(limits[u])[2]]_vars

C14_Witness ==
  /\ intake["i1"].pc = "idle"
  /\ intake["i1"].result = "Failed to create transaction"
  /\ intake["i1"].req.op = "bulk" /\ Len(intake["i1"].req.transfers) = 2
  /\ txs = <<>>
  /\ limits[1].exists /\ limits[1].daily_limit = DefaultDailyLimit
  /\ limits[1].current_daily = 0

\* The authorization policy of intake.
Authorized(req) ==
  CASE req.op = "mint" -> req.role = "SUPER_ADMIN"
    [] req.op = "burn" ->
         (req.from = 0 \/ req.from = req.caller) \/ req.role \in {"ADMIN", "SUPER_ADMIN"}
    [] req.op = "transfer" -> req.to # req.caller
    [] req.op = "bulk" ->
         /\ req.role \in {"ADMIN", "SUPER_ADMIN"}
         /\ Len(req.transfers) \in 1..100
         /\ \A k \in 1..Len(req.transfers) : req.transfers[k].to_user_id # req.caller

(* C15: an intake request that fails the authorization policy (mint by a
   caller who is not SUPER_ADMIN, burn of another user's tokens by a
   non-admin, transfer or bulk leg to the caller, bulk by a non-admin or
   with zero or more than 100 transfers) is rejected in its check phase
   with no Transaction row and no limits change; every request whose rows
   are persisted passes the policy, and no TRANSFER or BULK_TRANSFER row
   has its sender as destination. *)
C15_AuthorizationFirst ==
  [][/\ \A i \in IntakeSlots :
          /\ (intake[i].pc = "idle" /\ intake'[i] # intake[i]
                /\ ~Authorized(intake'[i].req)) =>
               /\ intake'[i].pc = "idle" /\ intake'[i].result # "PENDING"
               /\ txs' = txs /\ limits' = limits
          /\ (intake[i].pc \in {"checked", "usage"} /\ intake'[i].result = "PENDING") =>
               Authorized(intake[i].req)
     /\ \A t \in 1..Len(txs') :
          txs'[t].type \in {"TRANSFER", "BULK_TRANSFER"} =>
            txs'[t].from_user_id # txs'[t].to_user_id]_vars

C15_Witness ==
  /\ intake["i1"].pc = "idle" /\ intake["i1"].req.op = "bulk"
  /\ Len(intake["i1"].req.transfers) > 100
  /\ intake["i1"].result = "Maximum 100 transfers per bulk operation"
  /\ Len(txs) = 1 /\ txs[1].type = "MINT"

(* C23: burnTokens, transferTokens and bulkTransfer let a request through
   to its storage transaction, and so create a PENDING transaction and a
   reservation, only if the paying owner's wallet exists and is ACTIVE. *)
C23_SourceActive ==
  [][\A i \in IntakeSlots :
       (intake[i].pc = "idle" /\ intake'[i].pc = "checked"
          /\ intake'[i].req.op # "mint") =>
         LET p == Payer(intake'[i].req) IN
         wallets[p].exists /\ wallets[p].status = "ACTIVE"]_vars

(* C29: a reservation that commits for an owner with a limits row raises
   that owner's current_daily and current_monthly by exactly its amount
   over the values stored at the moment of its commit, so that two
   reservations running together raise the counters by the sum of their
   amounts and none is lost. *)
C29_NoLostUpdate ==
  [][\A i \in IntakeSlots :
       LET p == Payer(intake[i].req) IN
       (intake[i].pc \in {"checked", "usage"} /\ intake'[i].result = "PENDING"
          /\ intake[i].req.op # "mint" /\ limits[p].exists) =>
         /\ limits'[p].current_daily = limits[p].current_daily + Debited(intake[i].req)
         /\ limits'[p].current_monthly
              = limits[p].current_monthly + Debited(intake[i].req)]_vars

(* ------------------------- eventual resolution ------------------------- *)

NextFair ==
  \/ \E req \in Requests : IntakeCheck("i1", req)
  \/ IntakePersist("i1")
  \/ \E t \in 1..MaxTx : Deliver("d1", t)
  \/ ProcessStep("d1")

\* The queue redelivers every unacknowledged item again and again, and the
\* worker runs each processTransaction call to its end.
FairSpec ==
  /\ InitPipeline
  /\ [][NextFair]_vars
  /\ \A t \in 1..MaxTx : SF_vars(Deliver("d1", t))
  /\ WF_vars(ProcessStep("d1"))

(* C9: every transaction intake accepted has its Transaction row resolved
   to COMPLETED or FAILED eventually, while the worker keeps running and
   the queue keeps redelivering. *)
C9_EventualResolution ==
  \A t \in 1..MaxTx :
    (t <= Len(txs)) ~> (t <= Len(txs) /\ txs[t].status \in {"COMPLETED", "FAILED"})


(* ------------------------- stored log rows ----------------------------- *)

\* The accepted transactions the worker is handed: a transfer and a burn.
StoredTxs ==
  << [type |-> "TRANSFER", from_user_id |-> 1, to_user_id |-> 2, amount |-> 1000,
      fee |-> Fee(1000), status |-> "PENDING"],
     [type |-> "BURN", from_user_id |-> 1, to_user_id |-> 0, amount |-> 1000,
      fee |-> 0, status |-> "PENDING"] >>

\* The transaction_logs row processTransaction may find for the transfer:
\* none, or a row in a state its own writes leave behind (RETRYING after 2
\* or 3 failed attempts, COMPLETED, DEAD_LETTER).
StoredLogs ==
  {NoLog} \cup
  {[NoLog EXCEPT !.exists = TRUE, !.status = "RETRYING", !.retry_count = r,
                 !.max_retries = DefaultMaxRetries, !.error = TRUE] : r \in {2, 3}} \cup
  {[NoLog EXCEPT !.exists = TRUE, !.status = "COMPLETED",
                 !.max_retries = DefaultMaxRetries,
                 !.wallet_updates = WalletUpdates(StoredTxs[1])],
   [NoLog EXCEPT !.exists = TRUE, !.status = "DEAD_LETTER",
                 !.retry_count = DefaultMaxRetries,
                 !.max_retries = DefaultMaxRetries, !.error = TRUE]}

\* The last status update sent for a transaction whose log row is L.
SentFor(L) ==
  CASE L.status = "COMPLETED" -> "COMPLETED"
    [] L.status = "DEAD_LETTER" -> "FAILED"
    [] L.status = "RETRYING" -> "PROCESSING"
    [] OTHER -> "none"

\* Wallets and history after the transfer was applied.
SettledWallets ==
  [FundedWallets EXCEPT ![1].balance = MaxBalance - (1000 + Fee(1000)),
                        ![2].balance = 1000, ![2].last_transaction_at = 0]

SettledHistory ==
  FundedHistory \o
  << [wallet_id |-> 1, old_balance |-> MaxBalance,
      new_balance |-> MaxBalance - (1000 + Fee(1000)), amount |-> 1000 + Fee(1000),
      change_type |-> "TRANSFER_OUT", transaction_id |-> 1],
     [wallet_id |-> 2, old_balance |-> 0, new_balance |-> 1000, amount |-> 1000,
      change_type |-> "TRANSFER_IN", transaction_id |-> 1] >>

\* Wallets and history after user 1 withdrew through the wallet API, the
\* transactions accepted and not yet settled: the balance left covers
\* neither of them.
DrainedWallets == [FundedWallets EXCEPT ![1].balance = 500]

DrainedHistory ==
  FundedHistory \o
  << [wallet_id |-> 1, old_balance |-> MaxBalance, new_balance |-> 500,
      amount |-> MaxBalance - 500, change_type |-> "WITHDRAWAL",
      transaction_id |-> NoTxId] >>

InitStored ==
  \E L \in StoredLogs, drained \in BOOLEAN :
    /\ L.status = "COMPLETED" => ~drained
    /\ wallets = IF L.status = "COMPLETED" THEN SettledWallets
                 ELSE IF drained THEN DrainedWallets ELSE FundedWallets
    /\ history = IF L.status = "COMPLETED" THEN SettledHistory
                 ELSE IF drained THEN DrainedHistory ELSE FundedHistory
    /\ lock = [u \in Users |-> "none"]
    /\ api = [c \in ApiCallers |-> IdleCall]
    /\ txs = StoredTxs
    /\ limits = [u \in Users |-> NoLimits]
    /\ today = 0
    /\ intake = [i \in IntakeSlots |-> IdleIntake]
    /\ logs = [t \in 1..MaxTx |-> IF t = 1 THEN L ELSE NoLog]
    /\ dl = [d \in Deliveries |-> IdleDelivery]
    /\ sent = [t \in 1..MaxTx |-> IF t = 1 THEN SentFor(L) ELSE "none"]
    /\ attempts = [t \in 1..MaxTx |-> 0]
    /\ now = 0
    /\ acked = {}

\* Two consumers taking deliveries of the stored transactions.
NextStored ==
  \/ \E d \in Deliveries, t \in 1..MaxTx : Deliver(d, t)
  \/ \E d \in Deliveries : ProcessStep(d)
  \/ \E d \in Deliveries : FinishMessage(d)
  \/ \E d \in Deliveries : Crash(d)
  \/ Tick

SpecStored == InitStored /\ [][NextStored]_vars

\* The order of the statuses of a Transaction.
StatusOrder ==
  {<<"none", "PROCESSING">>, <<"PROCESSING", "COMPLETED">>, <<"PROCESSING", "FAILED">>}

(* C12: the statuses the worker sends for a transaction only move forward
   along PENDING -> PROCESSING -> {COMPLETED, FAILED}: once COMPLETED or
   FAILED was sent, no PROCESSING and no other terminal status is sent
   after it, under any sequence of deliveries and retries. *)
C12_StatusMonotonic ==
  [][\A t \in 1..MaxTx :
       sent'[t] # sent[t] => <<sent[t], sent'[t]>> \in StatusOrder]_vars

(* C18: the consumer commits the offset of a work item only in the step
   that follows a processTransaction call that returned success, with the
   log row of the transaction COMPLETED; an item whose attempt failed or
   was cut short is not acknowledged. *)
C18_AckAfterCommit ==
  [][\A t \in 1..MaxTx :
       (t \in acked' /\ t \notin acked) =>
         /\ \E d \in Deliveries :
              /\ dl[d].pc = "done" /\ dl[d].tx = t /\ dl[d].result = "success"
              /\ dl'[d].pc = "idle"
         /\ logs[t].exists /\ logs[t].status = "COMPLETED"]_vars

C18_Witness ==
  /\ acked = {1}
  /\ logs[1].status = "COMPLETED"
  /\ attempts[2] >= 2
  /\ \A d \in Deliveries : dl[d].pc = "idle"

(* C19: a delivery to processTransaction that finds the log row of the
   transaction COMPLETED returns success, and one that finds it DEAD_LETTER
   returns failure; in both cases no wallet balance update and no status
   update is issued and the log row stays as it is. *)
C19_ShortCircuit ==
  [][\A d \in Deliveries, t \in 1..MaxTx :
       (/\ dl[d].pc \in {"idle", "done"}
        /\ dl'[d] # dl[d] /\ dl'[d].pc # "idle" /\ dl'[d].tx = t
        /\ logs[t].exists /\ logs[t].status \in {"COMPLETED", "DEAD_LETTER"}) =>
         /\ dl'[d].pc = "done"
         /\ dl'[d].result = IF logs[t].status = "COMPLETED" THEN "success" ELSE "failure"
         /\ wallets' = wallets /\ history' = history
         /\ sent' = sent /\ txs' = txs
         /\ logs' = logs]_vars

C19_Witness ==
  \E d \in Deliveries :
    /\ dl[d].pc = "done" /\ dl[d].tx = 1 /\ dl[d].result = "failure"
    /\ ~dl[d].existing.exists
    /\ logs[1].exists /\ logs[1].status = "DEAD_LETTER"
    /\ attempts[1] >= 1

(* C20: once the log row of a transaction is stored as COMPLETED or
   DEAD_LETTER, no later step of any delivery, concurrent or duplicate,
   changes its status. *)
C20_TerminalStable ==
  [][\A t \in 1..MaxTx :
       (logs[t].exists /\ logs[t].status \in {"COMPLETED", "DEAD_LETTER"}) =>
         logs'[t].status = logs[t].status]_vars

(* C30: a processTransaction call for a transaction whose log row is
   RETRYING goes on to an attempt only when next_retry_at of that row has
   been reached, whether the call comes from the retry processor or from a
   delivery of the message. *)
C30_BackoffRespected ==
  [][\A d \in Deliveries, t \in 1..MaxTx :
       (/\ dl[d].pc \in {"idle", "done"}
        /\ dl'[d].pc = "begin" /\ dl'[d].tx = t
        /\ logs[t].exists /\ logs[t].status = "RETRYING") =>
         logs[t].next_retry_at <= now]_vars

(* C22: an attempt that fails for insufficient balance at settlement, a
   failure no retry can cure, takes the stored log row of the transaction
   straight to DEAD_LETTER and sends FAILED for it; the row is not left
   RETRYING. *)
C22_TerminalFailure ==
  [][\A d \in Deliveries :
       LET t == dl[d].tx IN
       (/\ dl[d].pc = "failed" /\ dl[d].error = "Insufficient balance"
        /\ dl'[d].pc = "done"
        /\ logs[t].exists) =>
         /\ logs'[t].status = "DEAD_LETTER"
         /\ sent'[t] = "FAILED"]_vars

====
